---- MODULE Spec2Model ----
(***************************************************************************)
(* A model of main.py: the generator of Dockerfile / cloudbuild.yaml /     *)
(* build-script artifacts for a list of Ollama models, and the optional    *)
(* sequential submission of the builds with gcloud.                        *)
(*                                                                         *)
(* Identifiers are sequences of one-character strings, so that the         *)
(* character-wise functions (split, strip, replace, isalnum) are computed  *)
(* as the code computes them; file names and file contents are strings,    *)
(* built by concatenation as the f-strings and the templates build them.   *)
(***************************************************************************)
EXTENDS Integers, Sequences, FiniteSets, TLC

VARIABLES
    models_str,         \* main's argument: the comma-separated list, a sequence of characters
    submit,             \* main's argument
    no_build_scripts,   \* main's argument
    run,                \* which execution of the script on the same directory this is
    pc,                 \* position of the running process
    models,             \* main's local: the parsed list
    i,                  \* index of the current element of the for loops
    model_id,           \* local of the loop body
    dockerfile_content, \* local of the loop body
    cloudbuild_content, \* local of the loop body
    build_scripts,      \* generate_files' local list of script paths
    dir_exists,         \* file system: the build directory exists
    fs,                 \* file system: path -> [content, exec] of the files of the directory
    writes,             \* history: the file-system effects of this execution, in order
    prev_writes,        \* history: the effects of the previous execution
    prev_gbs,           \* history: generate_build_script of the previous execution
    prev_fs,            \* history: the directory as the previous execution left it
    invocations,        \* history: argv of every external command started by this execution
    stdout,             \* what this execution printed
    err,                \* the exception that ended or hit this execution ("" when none)
    fault_at,           \* history: Len(writes) when a file-system error was raised
    san_input,          \* sanitizer specification: the identifier under test
    san_calls           \* sanitizer specification: the calls of get_model_id made, [arg, ret]

vars == <<models_str, submit, no_build_scripts, run, pc, models, i, model_id,
          dockerfile_content, cloudbuild_content, build_scripts, dir_exists, fs,
          writes, prev_writes, prev_gbs, prev_fs, invocations, stdout, err,
          fault_at, san_input, san_calls>>

args_vars == <<models_str, submit, no_build_scripts, run>>
hist_vars == <<prev_writes, prev_gbs, prev_fs>>
san_vars  == <<san_input, san_calls>>
local_vars == <<model_id, dockerfile_content, cloudbuild_content>>

-----------------------------------------------------------------------------
(* Bounds of the model.                                                    *)

MaxModels == 2      \* entries of the comma-separated list
MaxRuns == 2        \* executions of the script on the same build directory
MaxSanLen == 3      \* length of the identifiers of the sanitizer specification

-----------------------------------------------------------------------------
(* Characters and strings.                                                 *)

\* str.isalnum on the characters the model uses.
AlnumChars == {"a", "l", "B", "2"}
isalnum(c) == c \in AlnumChars

\* str.strip() with no argument strips whitespace.
Whitespace == {" ", "\t"}

RECURSIVE ToStr(_)
ToStr(s) == IF s = <<>> THEN "" ELSE Head(s) \o ToStr(Tail(s))

RECURSIVE Split(_, _)
\* s.split(sep): always at least one piece; an empty piece between two separators.
Split(s, sep) ==
    IF \A k \in 1..Len(s) : s[k] # sep THEN <<s>>
    ELSE LET k == CHOOSE k \in 1..Len(s) :
                    s[k] = sep /\ \A j \in 1..(k - 1) : s[j] # sep
         IN <<SubSeq(s, 1, k - 1)>> \o Split(SubSeq(s, k + 1, Len(s)), sep)

RECURSIVE LStrip(_)
LStrip(s) == IF s # <<>> /\ Head(s) \in Whitespace THEN LStrip(Tail(s)) ELSE s

RECURSIVE RStrip(_)
RStrip(s) ==
    IF s # <<>> /\ s[Len(s)] \in Whitespace THEN RStrip(SubSeq(s, 1, Len(s) - 1)) ELSE s

Strip(s) == RStrip(LStrip(s))

\* str.replace(old, new) for one-character old and new.
Replace(s, old, new) == [k \in 1..Len(s) |-> IF s[k] = old THEN new ELSE s[k]]

RECURSIVE StrsUpTo(_, _)
StrsUpTo(chars, n) ==
    IF n = 0 THEN {<<>>}
    ELSE LET shorter == StrsUpTo(chars, n - 1)
         IN shorter \cup {Append(s, c) : s \in {t \in shorter : Len(t) = n - 1}, c \in chars}

RECURSIVE ListsUpTo(_, _)
ListsUpTo(S, n) ==
    IF n = 0 THEN {<<>>}
    ELSE LET shorter == ListsUpTo(S, n - 1)
         IN shorter \cup {Append(l, x) : l \in {t \in shorter : Len(t) = n - 1}, x \in S}

RECURSIVE JoinComma(_)
JoinComma(ps) ==
    IF Len(ps) = 1 THEN ps[1] ELSE ps[1] \o <<",">> \o JoinComma(Tail(ps))

-----------------------------------------------------------------------------
(* get_model_id                                                            *)

\* A sanitizer that normalises only the colon and the period.
get_model_id_replace_only(model_name) ==
    Replace(Replace(model_name, ":", "-"), ".", "-")

\* A sanitizer that marks its result with a prefix.
get_model_id_prefixed(model_name) ==
    LET replaced == Replace(Replace(model_name, ":", "-"), ".", "-")
    IN <<"a", "-">> \o [k \in 1..Len(replaced) |->
            IF isalnum(replaced[k]) THEN replaced[k] ELSE "-"]

get_model_id(model_name) ==
    LET replaced == Replace(Replace(model_name, ":", "-"), ".", "-")
    IN [k \in 1..Len(replaced) |-> IF isalnum(replaced[k]) THEN replaced[k] ELSE "-"]

-----------------------------------------------------------------------------
(* Templates and file names.                                               *)

build_dir == "./build"

\* os.path.join(a, b) for a relative b and an a without a trailing separator.
PathJoin(a, b) == a \o "/" \o b

DockerfileName(id) == "Dockerfile-" \o ToStr(id)

CloudbuildNamePrefixed(id) == "cloudbuild-" \o ToStr(id) \o ".yaml"

CloudbuildName(id) == ToStr(id) \o "-cloudbuild.yaml"

BuildScriptName(id) == "build-" \o ToStr(id) \o ".sh"

BuildAllName == "build-all.sh"

\* Template(DOCKERFILE_TEMPLATE).render(model=model, additional_models=[]):
\* the if-block renders to nothing, the last newline is dropped by jinja2.
RenderDockerfile(model) ==
    "FROM ollama/ollama\nENV HOME /root\nWORKDIR /\nENV OLLAMA_KEEP_ALIVE -1\n"
    \o "RUN ollama serve & sleep 10 && ollama pull " \o ToStr(model) \o "\n"
    \o "\nENTRYPOINT [\"ollama\",\"serve\"]"

RenderCloudbuild(id) ==
    "steps:\n # Build step\n - name: gcr.io/cloud-builders/docker\n   args:\n"
    \o "    - build\n    - \"-t\"\n    - gcr.io/$PROJECT_ID/ollama:" \o ToStr(id) \o "\n"
    \o "    - \"-f\"\n    - Dockerfile-" \o ToStr(id) \o "\n    - .\n"
    \o "# Push step\n - name: gcr.io/cloud-builders/docker\n   args:\n    - push\n"
    \o "    - gcr.io/$PROJECT_ID/ollama:" \o ToStr(id) \o "\n"
    \o "# Image outputs\nimages:\n - gcr.io/$PROJECT_ID/ollama:" \o ToStr(id) \o "\n"
    \o "# Build options\noptions:\n  machineType: E2_HIGHCPU_8\n"
    \o "  diskSizeGb: 200  # Increased disk space otherwise the model built on cloud build exceeds default space"

RenderBuildScript(dir, id) ==
    "#!/bin/bash\nset -x\npushd " \o dir \o "\ngcloud builds submit --config "
    \o ToStr(id) \o "-cloudbuild.yaml\npopd"

RECURSIVE ScriptLines(_)
ScriptLines(scripts) ==
    IF scripts = <<>> THEN "" ELSE Head(scripts) \o "\n" \o ScriptLines(Tail(scripts))

BuildAllContent(scripts) == "#!/bin/bash\nset -e\n\n" \o ScriptLines(scripts)

GcloudArgv(cloudbuild_file, dir) ==
    <<"gcloud", "builds", "submit", "--config", cloudbuild_file, dir>>

-----------------------------------------------------------------------------
(* The file system.                                                        *)

Put(f, k, v) == [x \in DOMAIN f \cup {k} |-> IF x = k THEN v ELSE f[x]]

\* A write that leaves an existing file alone.
WriteFileNoClobber(files, path, content) ==
    IF path \in DOMAIN files THEN files
    ELSE Put(files, path, [content |-> content, exec |-> FALSE])

\* open(path, "w") + write: creates the file (not executable) or truncates it
\* (its mode is kept).
WriteFile(files, path, content) ==
    Put(files, path,
        [content |-> content,
         exec |-> IF path \in DOMAIN files THEN files[path].exec ELSE FALSE])

\* os.chmod(path, 0o755)
Chmod755(files, path) == Put(files, path, [files[path] EXCEPT !.exec = TRUE])

open_mode == "w"

\* open(path, mode) raises FileExistsError only for exclusive creation.
OpenRaises(path) == open_mode = "x" /\ path \in DOMAIN fs

exist_ok_false == FALSE

exist_ok == TRUE

\* os.makedirs(build_dir, exist_ok=exist_ok)
MakedirsRaises == dir_exists /\ ~exist_ok

-----------------------------------------------------------------------------
(* Inputs.                                                                 *)

\* The pieces between the commas of --models: an empty piece, a plain name, a
\* name padded with blanks, names with a tag separator, a version period or
\* another special character (all three sanitize to a-2), and the name all.
RawPieces ==
    { <<>>, <<"a">>, <<" ", "a", " ">>, <<"a", ":", "2">>, <<"a", ".", "2">>,
      <<"a", "_", "2">>, <<"a", "l", "l">> }

ModelsStrs == {JoinComma(ps) : ps \in ListsUpTo(RawPieces, MaxModels) \ {<<>>}}

SanChars == {"a", "B", "2", ":", ".", "-", "_", " "}

SanInputs == StrsUpTo(SanChars, MaxSanLen)

-----------------------------------------------------------------------------
(* main                                                                    *)

generate_build_script == ~no_build_scripts

Init ==
    /\ models_str \in ModelsStrs
    /\ submit \in BOOLEAN
    /\ no_build_scripts \in BOOLEAN
    /\ run = 1
    /\ pc = "main"
    /\ models = <<>>
    /\ i = 0
    /\ model_id = <<>>
    /\ dockerfile_content = ""
    /\ cloudbuild_content = ""
    /\ build_scripts = <<>>
    /\ dir_exists = FALSE
    /\ fs = <<>>
    /\ writes = <<>>
    /\ prev_writes = <<>>
    /\ prev_gbs = FALSE
    /\ prev_fs = <<>>
    /\ invocations = <<>>
    /\ stdout = <<>>
    /\ err = ""
    /\ fault_at = 0
    /\ san_input = <<>>
    /\ san_calls = <<>>

\* models = [model.strip() for model in models_str.split(",")]
ParseModels(s) == LET pieces == Split(s, ",") IN [k \in 1..Len(pieces) |-> Strip(pieces[k])]

MainParse ==
    /\ pc = "main"
    /\ models' = ParseModels(models_str)
    /\ pc' = "makedirs"
    /\ UNCHANGED <<args_vars, hist_vars, san_vars, local_vars, i, build_scripts,
                   dir_exists, fs, writes, invocations, stdout, err, fault_at>>

-----------------------------------------------------------------------------
(* generate_files                                                          *)

Raise(e) ==
    /\ pc' = "crashed"
    /\ err' = e
    /\ fault_at' = Len(writes)

Makedirs ==
    /\ pc = "makedirs"
    /\ IF MakedirsRaises
       THEN /\ Raise("FileExistsError")
            /\ UNCHANGED <<dir_exists, build_scripts, i>>
       ELSE /\ dir_exists' = TRUE
            /\ build_scripts' = <<>>
            /\ i' = 1
            /\ pc' = "for_model"
            /\ UNCHANGED <<err, fault_at>>
    /\ UNCHANGED <<args_vars, hist_vars, san_vars, local_vars, models, fs, writes,
                   invocations, stdout>>

\* Lines 83-93: the loop head and the rendering of the two templates.
ForModel ==
    /\ pc = "for_model"
    /\ IF i <= Len(models)
       THEN /\ model_id' = get_model_id(models[i])
            /\ stdout' = Append(stdout,
                   "Generating files for model: " \o ToStr(models[i])
                   \o " (ID: " \o ToStr(get_model_id(models[i])) \o ")")
            /\ dockerfile_content' = RenderDockerfile(models[i])
            /\ cloudbuild_content' = RenderCloudbuild(get_model_id(models[i]))
            /\ pc' = "write_dockerfile"
       ELSE /\ pc' = "master"
            /\ UNCHANGED <<local_vars, stdout>>
    /\ UNCHANGED <<args_vars, hist_vars, san_vars, models, i, build_scripts, dir_exists,
                   fs, writes, invocations, err, fault_at>>

\* One open(path, "w") / f.write(content) of generate_files.
DoWrite(kind, path, content, next_pc) ==
    IF OpenRaises(path)
    THEN /\ Raise("FileExistsError")
         /\ UNCHANGED <<fs, writes>>
    ELSE /\ fs' = WriteFile(fs, path, content)
         /\ writes' = Append(writes,
                [op |-> "write", kind |-> kind, path |-> path, content |-> content])
         /\ pc' = next_pc
         /\ UNCHANGED <<err, fault_at>>

WriteDockerfile ==
    /\ pc = "write_dockerfile"
    /\ DoWrite("dockerfile", PathJoin(build_dir, DockerfileName(model_id)),
               dockerfile_content, "write_cloudbuild")
    /\ UNCHANGED <<args_vars, hist_vars, san_vars, local_vars, models, i, build_scripts,
                   dir_exists, invocations, stdout>>

WantsScriptAlways == TRUE

\* Line 103: if generate_build_script
WantsScript == generate_build_script

WriteCloudbuild ==
    /\ pc = "write_cloudbuild"
    /\ DoWrite("cloudbuild", PathJoin(build_dir, CloudbuildName(model_id)),
               cloudbuild_content, IF WantsScript THEN "write_script" ELSE "for_model")
    /\ i' = IF pc' = "for_model" THEN i + 1 ELSE i
    /\ UNCHANGED <<args_vars, hist_vars, san_vars, local_vars, models, build_scripts,
                   dir_exists, invocations, stdout>>

WriteBuildScript ==
    /\ pc = "write_script"
    /\ DoWrite("script", PathJoin(build_dir, BuildScriptName(model_id)),
               RenderBuildScript(build_dir, model_id), "chmod_script")
    /\ UNCHANGED <<args_vars, hist_vars, san_vars, local_vars, models, i, build_scripts,
                   dir_exists, invocations, stdout>>

\* Lines 113-114: chmod, append to build_scripts, next iteration.
ChmodBuildScript ==
    /\ pc = "chmod_script"
    /\ LET build_script_path == PathJoin(build_dir, BuildScriptName(model_id))
       IN /\ fs' = Chmod755(fs, build_script_path)
          /\ writes' = Append(writes,
                 [op |-> "chmod", kind |-> "script", path |-> build_script_path,
                  content |-> ""])
          /\ build_scripts' = Append(build_scripts, build_script_path)
    /\ i' = i + 1
    /\ pc' = "for_model"
    /\ UNCHANGED <<args_vars, hist_vars, san_vars, local_vars, models, dir_exists,
                   invocations, stdout, err, fault_at>>

\* Line 117: if generate_build_script and build_scripts
WriteBuildAll ==
    /\ pc = "master"
    /\ generate_build_script /\ build_scripts # <<>>
    /\ DoWrite("master", PathJoin(build_dir, BuildAllName),
               BuildAllContent(build_scripts), "chmod_master")
    /\ UNCHANGED <<args_vars, hist_vars, san_vars, local_vars, models, i, build_scripts,
                   dir_exists, invocations, stdout>>

SkipBuildAll ==
    /\ pc = "master"
    /\ ~(generate_build_script /\ build_scripts # <<>>)
    /\ pc' = "main_tail"
    /\ UNCHANGED <<args_vars, hist_vars, san_vars, local_vars, models, i, build_scripts,
                   dir_exists, fs, writes, invocations, stdout, err, fault_at>>

ChmodBuildAll ==
    /\ pc = "chmod_master"
    /\ fs' = Chmod755(fs, PathJoin(build_dir, BuildAllName))
    /\ writes' = Append(writes,
           [op |-> "chmod", kind |-> "master", path |-> PathJoin(build_dir, BuildAllName),
            content |-> ""])
    /\ pc' = "main_tail"
    /\ UNCHANGED <<args_vars, hist_vars, san_vars, local_vars, models, i, build_scripts,
                   dir_exists, invocations, stdout, err, fault_at>>

\* The positions of generate_files at which the next statement is a file-system call.
WritePcs == {"write_dockerfile", "write_cloudbuild", "write_script"}
FsPcs == {"makedirs", "chmod_script", "chmod_master"} \cup WritePcs
         \cup (IF pc = "master" /\ generate_build_script /\ build_scripts # <<>>
               THEN {"master"} ELSE {})

\* The position after the file-system call at pc, were the call skipped.
PcAfter ==
    CASE pc = "makedirs" -> "for_model"
      [] pc = "write_dockerfile" -> "write_cloudbuild"
      [] pc = "write_cloudbuild" -> "write_script"
      [] pc = "write_script" -> "chmod_script"
      [] pc = "chmod_script" -> "for_model"
      [] pc = "master" -> "chmod_master"
      [] pc = "chmod_master" -> "main_tail"
      [] OTHER -> pc

\* A generate_files whose file-system calls are wrapped in try/except: the error
\* is recorded and the run goes on with the next statement.
FsErrorCaught ==
    /\ pc \in FsPcs
    /\ err' = "OSError"
    /\ fault_at' = Len(writes)
    /\ pc' = PcAfter
    /\ i' = IF pc = "makedirs" THEN 1 ELSE IF pc = "chmod_script" THEN i + 1 ELSE i
    /\ UNCHANGED <<args_vars, hist_vars, san_vars, local_vars, models, build_scripts,
                   dir_exists, fs, writes, invocations, stdout>>

\* The operating system refuses a makedirs, open or chmod of generate_files
\* (permissions, a full disk, a path that is not a directory): OSError is raised,
\* nothing catches it, the process ends.
FsError ==
    /\ pc \in FsPcs
    /\ Raise("OSError")
    /\ UNCHANGED <<args_vars, hist_vars, san_vars, local_vars, models, i, build_scripts,
                   dir_exists, fs, writes, invocations, stdout>>

CurPath ==
    CASE pc = "write_dockerfile" -> PathJoin(build_dir, DockerfileName(model_id))
      [] pc = "write_cloudbuild" -> PathJoin(build_dir, CloudbuildName(model_id))
      [] pc = "write_script" -> PathJoin(build_dir, BuildScriptName(model_id))
      [] OTHER -> PathJoin(build_dir, BuildAllName)

\* open(path, "w") succeeds (the file is created or truncated) and f.write fails.
WriteError ==
    /\ pc \in (FsPcs \ {"makedirs", "chmod_script", "chmod_master"})
    /\ fs' = WriteFile(fs, CurPath, "")
    /\ Raise("OSError")
    /\ UNCHANGED <<args_vars, hist_vars, san_vars, local_vars, models, i, build_scripts,
                   dir_exists, writes, invocations, stdout>>

-----------------------------------------------------------------------------
(* main after generate_files, and submit_builds                            *)

MainTail ==
    /\ pc = "main_tail"
    /\ IF submit
       THEN /\ pc' = "submit"
            /\ i' = 1
            /\ UNCHANGED stdout
       ELSE /\ pc' = "done"
            /\ stdout' = stdout \o
                 <<"\nFiles generated successfully. To submit builds, run:",
                   "  " \o PathJoin(build_dir, "build-all.sh"),
                   "Or specify --submit when running this script">>
            /\ UNCHANGED i
    /\ UNCHANGED <<args_vars, hist_vars, san_vars, local_vars, models, build_scripts,
                   dir_exists, fs, writes, invocations, err, fault_at>>

\* What subprocess.run(argv, check=True) can do: return (exit status 0), raise
\* CalledProcessError (another exit status), or raise OSError before the
\* command runs (no gcloud on PATH, no permission to execute it).
RunOutcomes == {"ok", "CalledProcessError", "OSError"}

\* The exceptions the except clause of submit_builds names.
CaughtAll == RunOutcomes \ {"ok"}

Caught == {"CalledProcessError"}

\* One iteration of the loop of submit_builds, the loop's exit included.
SubmitOne(outcome) ==
    /\ pc = "submit"
    /\ i <= Len(models)
    /\ LET model == models[i]
           id == get_model_id(model)
           cloudbuild_file == PathJoin(build_dir, CloudbuildName(id))
           announce == "Submitting build for model: " \o ToStr(model)
                       \o " (ID: " \o ToStr(id) \o ")"
       IN /\ model_id' = id
          /\ invocations' = Append(invocations, GcloudArgv(cloudbuild_file, build_dir))
          /\ IF outcome = "ok"
             THEN /\ stdout' = stdout \o
                        <<announce, "Build submitted successfully for " \o ToStr(model)>>
                  /\ i' = i + 1
                  /\ pc' = IF i = Len(models) THEN "done" ELSE "submit"
                  /\ UNCHANGED <<err, fault_at>>
             ELSE IF outcome \in Caught
             THEN /\ stdout' = stdout \o
                        <<announce,
                          "Error submitting build for " \o ToStr(model) \o ": " \o outcome>>
                  /\ i' = i + 1
                  /\ pc' = IF i = Len(models) THEN "done" ELSE "submit"
                  /\ UNCHANGED <<err, fault_at>>
             ELSE /\ stdout' = Append(stdout, announce)
                  /\ Raise("Subprocess" \o outcome)
                  /\ UNCHANGED i
    /\ UNCHANGED <<args_vars, hist_vars, san_vars, dockerfile_content, cloudbuild_content,
                   models, build_scripts, dir_exists, fs, writes>>

Submit == \E outcome \in RunOutcomes : SubmitOne(outcome)

\* The script is run again, with the same --models, on the directory as it is.
Rerun ==
    /\ pc = "done"
    /\ run < MaxRuns
    /\ run' = run + 1
    /\ submit' \in BOOLEAN
    /\ no_build_scripts' \in BOOLEAN
    /\ prev_writes' = writes
    /\ prev_gbs' = generate_build_script
    /\ prev_fs' = fs
    /\ pc' = "main"
    /\ models' = <<>>
    /\ i' = 0
    /\ model_id' = <<>>
    /\ dockerfile_content' = ""
    /\ cloudbuild_content' = ""
    /\ build_scripts' = <<>>
    /\ writes' = <<>>
    /\ invocations' = <<>>
    /\ stdout' = <<>>
    /\ err' = ""
    /\ fault_at' = 0
    /\ UNCHANGED <<models_str, dir_exists, fs, san_vars>>

Next ==
    \/ MainParse
    \/ Makedirs
    \/ ForModel
    \/ WriteDockerfile
    \/ WriteCloudbuild
    \/ WriteBuildScript
    \/ ChmodBuildScript
    \/ WriteBuildAll
    \/ SkipBuildAll
    \/ ChmodBuildAll
    \/ FsError
    \/ WriteError
    \/ MainTail
    \/ Submit
    \/ Rerun

Spec == Init /\ [][Next]_vars

-----------------------------------------------------------------------------
(* The sanitizer on its own: get_model_id applied to an identifier, and    *)
(* then to its own result.                                                 *)

InitSan ==
    /\ san_input \in SanInputs
    /\ san_calls = <<>>
    /\ models_str = <<>>
    /\ submit = FALSE
    /\ no_build_scripts = FALSE
    /\ run = 1
    /\ pc = "san"
    /\ models = <<>>
    /\ i = 0
    /\ model_id = <<>>
    /\ dockerfile_content = ""
    /\ cloudbuild_content = ""
    /\ build_scripts = <<>>
    /\ dir_exists = FALSE
    /\ fs = <<>>
    /\ writes = <<>>
    /\ prev_writes = <<>>
    /\ prev_gbs = FALSE
    /\ prev_fs = <<>>
    /\ invocations = <<>>
    /\ stdout = <<>>
    /\ err = ""
    /\ fault_at = 0

SanFirst ==
    /\ pc = "san"
    /\ san_calls = <<>>
    /\ san_calls' = <<[arg |-> san_input, ret |-> get_model_id(san_input)]>>
    /\ UNCHANGED <<args_vars, hist_vars, local_vars, pc, models, i, build_scripts,
                   dir_exists, fs, writes, invocations, stdout, err, fault_at, san_input>>

SanAgain ==
    /\ pc = "san"
    /\ Len(san_calls) = 1
    /\ san_calls' = Append(san_calls,
           [arg |-> san_calls[1].ret, ret |-> get_model_id(san_calls[1].ret)])
    /\ UNCHANGED <<args_vars, hist_vars, local_vars, pc, models, i, build_scripts,
                   dir_exists, fs, writes, invocations, stdout, err, fault_at, san_input>>

NextSan == SanFirst \/ SanAgain

SpecSan == InitSan /\ [][NextSan]_vars

-----------------------------------------------------------------------------
(* Properties.                                                             *)

Range(s) == {s[k] : k \in 1..Len(s)}

\* generate_files has returned in this execution.
Generated ==
    \/ pc \in {"main_tail", "submit", "done"}
    \/ pc = "crashed" /\ err = "SubprocessOSError"

\* submit_builds has been entered and the process has ended.
SubmitEnded ==
    /\ submit
    /\ \/ pc = "done"
       \/ pc = "crashed" /\ err = "SubprocessOSError"

Token(k) == get_model_id(models[k])

\* The last entry of the list whose token is that of entry k.
LastWithToken(k) ==
    CHOOSE m \in k..Len(models) :
        /\ Token(m) = Token(k)
        /\ \A n \in (m + 1)..Len(models) : Token(n) # Token(k)

IsTemplateWrite(w) == w.op = "write" /\ w.kind \in {"dockerfile", "cloudbuild"}

\* C1: when the external command fails for one model, whatever the kind of
\* failure, the failure is caught: the run is never ended by a failure of the
\* invocation, and once submit_builds is over every entry of the list has had its
\* submission attempt.
C1_AnyFailureCaught ==
    /\ ~(pc = "crashed" /\ err = "SubprocessOSError")
    /\ (SubmitEnded => Len(invocations) = Len(models))

\* C2: every token get_model_id returns holds no colon and no period, and each
\* of its characters is alphanumeric or a hyphen.
C2_TokenCharacters ==
    \A k \in 1..Len(san_calls) :
        \A c \in Range(san_calls[k].ret) :
            /\ c \notin {":", "."}
            /\ c \in AlnumChars \cup {"-"}

\* C2's case: get_model_id has been applied to an identifier holding a colon, a
\* period and another special character.
C2_Witness ==
    /\ san_calls # <<>>
    /\ {":", ".", "_"} \subseteq Range(san_calls[1].arg)

\* C3: an execution with generate_build_script false writes no script, no
\* build-all.sh and changes no permission; it writes, for every entry, the
\* Dockerfile and the cloudbuild.yaml of its token, the very writes (paths and
\* contents, in order) an execution with scripts makes for these two kinds.
C3_SuppressedScripts ==
    /\ (~generate_build_script => \A w \in Range(writes) : IsTemplateWrite(w))
    /\ (Generated /\ ~generate_build_script =>
            /\ Len(writes) = 2 * Len(models)
            /\ \A k \in 1..Len(models) :
                /\ writes[2 * k - 1].path = "./build/Dockerfile-" \o ToStr(Token(k))
                /\ writes[2 * k].path = "./build/" \o ToStr(Token(k)) \o "-cloudbuild.yaml"
            /\ (run = 1 =>
                    \A p \in DOMAIN fs : \E w \in Range(writes) : w.path = p))
    /\ (Generated /\ run > 1 /\ ~generate_build_script /\ prev_gbs =>
            writes = SelectSeq(prev_writes, IsTemplateWrite))
    /\ (Generated /\ run > 1 /\ generate_build_script /\ ~prev_gbs =>
            SelectSeq(writes, IsTemplateWrite) = prev_writes)

\* C3's case: an execution without scripts has ended after one with scripts.
C3_Witness ==
    /\ pc = "done"
    /\ run > 1
    /\ ~generate_build_script
    /\ prev_gbs
    /\ Len(models) > 1

\* C4: a second generate_files on the same list and directory raises no error
\* because of what the first left there, and leaves the directory (files,
\* contents, executable bits) as the first left it.
C4_Idempotent ==
    /\ err # "FileExistsError"
    /\ (Generated /\ run > 1 /\ generate_build_script = prev_gbs => fs = prev_fs)

\* C4's case: the second execution has generated its files, scripts included.
C4_Witness ==
    /\ Generated
    /\ run > 1
    /\ generate_build_script
    /\ prev_gbs
    /\ fs # <<>>

\* The names generate_files is to leave in an empty directory, scripts included.
C5_ExpectedPaths ==
    UNION {{"./build/Dockerfile-" \o ToStr(Token(k)),
            "./build/" \o ToStr(Token(k)) \o "-cloudbuild.yaml",
            "./build/build-" \o ToStr(Token(k)) \o ".sh"} : k \in 1..Len(models)}
    \cup {"./build/build-all.sh"}

\* C5: after generate_files with scripts on an empty directory, the directory
\* holds Dockerfile-t, t-cloudbuild.yaml and build-t.sh for every entry's token
\* t, and build-all.sh, and nothing else.
C5_FileNames ==
    Generated /\ run = 1 /\ generate_build_script => DOMAIN fs = C5_ExpectedPaths

\* C5's case: generate_files with scripts has returned for two entries with
\* different tokens, one of them written with a colon.
C5_Witness ==
    /\ Generated
    /\ run = 1
    /\ generate_build_script
    /\ Len(models) = 2
    /\ Token(1) # Token(2)
    /\ ":" \in Range(models[1])

\* C6: when submission is requested the command is started once per entry, in
\* list order, with the entry's <build_dir>/<token>-cloudbuild.yaml and the build
\* directory; when it is not requested the command is never started.
C6_OncePerEntry ==
    /\ (~submit => invocations = <<>>)
    /\ (SubmitEnded =>
            invocations =
                [k \in 1..Len(models) |->
                    <<"gcloud", "builds", "submit", "--config",
                      "./build/" \o ToStr(Token(k)) \o "-cloudbuild.yaml", "./build">>])

\* C7: with scripts, build-all.sh is written after every per-model script; it
\* invokes every per-model script, one line per entry in list order naming the
\* entry's build-<token>.sh; build-all.sh and each script it names exist and are
\* executable when generate_files returns.
C7_Umbrella ==
    Generated /\ generate_build_script =>
        LET all == "./build/build-all.sh"
            script(k) == "./build/build-" \o ToStr(Token(k)) \o ".sh"
            n == Len(writes)
        IN /\ n >= 2
           /\ writes[n - 1].op = "write" /\ writes[n - 1].path = all
           /\ \A k \in 1..n : writes[k].kind = "script" => k < n - 1
           /\ all \in DOMAIN fs
           /\ fs[all].exec
           /\ fs[all].content =
                  "#!/bin/bash\nset -e\n\n"
                  \o ScriptLines([k \in 1..Len(models) |-> script(k)])
           /\ \A k \in 1..Len(models) :
                /\ script(k) \in DOMAIN fs
                /\ fs[script(k)].exec
                /\ fs[script(k)].content = RenderBuildScript(build_dir, Token(k))

\* C8: get_model_id is a function of its argument, and applied to a token it
\* returns the token.
C8_Idempotent ==
    /\ \A j, k \in 1..Len(san_calls) :
            san_calls[j].arg = san_calls[k].arg => san_calls[j].ret = san_calls[k].ret
    /\ (Len(san_calls) = 2 => san_calls[2].ret = san_calls[1].ret)

\* C8's case: get_model_id has been applied to the token of an identifier
\* that it had changed.
C8_Witness ==
    /\ Len(san_calls) = 2
    /\ san_calls[1].ret # san_calls[1].arg
    /\ san_calls[2].arg = san_calls[1].ret

\* The paths generate_files may have touched when it is at entry i.
C9_PathsSoFar ==
    LET upto == IF i <= Len(models) THEN i ELSE Len(models)
    IN UNION {{"./build/Dockerfile-" \o ToStr(Token(k)),
               "./build/" \o ToStr(Token(k)) \o "-cloudbuild.yaml",
               "./build/build-" \o ToStr(Token(k)) \o ".sh"} : k \in 1..upto}
       \cup (IF i > Len(models) THEN {"./build/build-all.sh"} ELSE {})

\* C9: a file-system error in generate_files ends the process there: nothing is
\* written afterwards (no artifact of a later entry, no build-all.sh), no
\* external command is started even with --submit, and what was written stays.
C9_FsErrorPropagates ==
    err = "OSError" =>
        /\ pc = "crashed"
        /\ Len(writes) = fault_at
        /\ invocations = <<>>
        /\ \A w \in Range(writes) : w.path \in DOMAIN fs /\ w.path \in C9_PathsSoFar

\* C9's case: with --submit, the error struck after a first artifact was
\* written and before the last entry was reached.
C9_Witness ==
    /\ err = "OSError"
    /\ submit
    /\ writes # <<>>
    /\ i < Len(models)

\* C10: entries with different identifiers and one token raise no error; the
\* Dockerfile of the token pulls the last of them, and no file pulls an
\* identifier that differs from the last one of its token.
C10_CollisionOverwrites ==
    /\ err \notin {"FileExistsError"}
    /\ (Generated =>
            \A k \in 1..Len(models) :
                LET last == LastWithToken(k)
                    dockerfile == "./build/Dockerfile-" \o ToStr(Token(k))
                IN /\ dockerfile \in DOMAIN fs
                   /\ fs[dockerfile].content = RenderDockerfile(models[last])
                   /\ (models[k] # models[last] =>
                          \A p \in DOMAIN fs :
                              fs[p].content # RenderDockerfile(models[k])))

\* C10's case: generate_files has returned for a list with two different
\* identifiers of one token.
C10_Witness ==
    /\ Generated
    /\ \E j, k \in 1..Len(models) :
           j < k /\ models[j] # models[k] /\ Token(j) = Token(k)

====
